---- MODULE Spec2Model ----
(***************************************************************************)
(* Verification model of userbot.py: the lead classifier (LeadAnalyzer),   *)
(* the deduplicating store (LeadStorage) and the event handler / shutdown  *)
(* logic of run_bot.                                                       *)
(*                                                                         *)
(* Text is a sequence of characters.  A character is written as a short    *)
(* ASCII name: a Cyrillic letter by its transliteration ("k" is the        *)
(* letter ka, "zh" the letter zhe, "yu" the letter yu, "soft" the soft     *)
(* sign), an upper-case Cyrillic letter by the upper-case name ("K"),      *)
(* "RUB" is the rouble sign, "^2" the superscript two, "NL" a newline.     *)
(***************************************************************************)
EXTENDS Integers, Sequences, FiniteSets, TLC

VARIABLES
    analyzer,        \* LeadAnalyzer fields after __init__
    lastText,        \* argument of the last analyze() call (SpecAnalyzer)
    decision,        \* LeadDecision returned by the last analyze() call
    signals,         \* hits and flags analyze() computed in that call
    conn,            \* LeadStorage.conn: "open" or "closed"
    leads,           \* rows of table leads, in insertion order
    lastCall,        \* arguments of the last direct insert_message call
    lastResult,      \* its outcome: "true", "false", "raise" ("none" before)
    prevLeads,       \* table contents right before the last store operation
    processed_count, \* run_bot.processed_count
    lead_count,      \* run_bot.lead_count
    shutdown_started,\* run_bot.shutdown_started
    connected,       \* the client is connected (run_until_disconnected runs)
    shutdownTasks,   \* shutdown() tasks created by signals and not yet run
    signalsSeen,     \* number of signals delivered so far
    disconnecting,   \* a shutdown task is suspended in client.disconnect()
    closeCalls,      \* how many times LeadStorage.close has executed
    shutdownRuns,    \* how many shutdown tasks have run
    pending,         \* handler invocations suspended in client.send_message
    sent,            \* notification requests made, in order
    eventsSeen,      \* number of message events handled so far
    lastHandler,     \* trace of the last handler step
    escaped,         \* an exception propagated out of handler()
    failures,        \* exceptions handler() has caught and logged so far
    insertAfterClose \* insert_message was called on a closed store

vars == <<analyzer, lastText, decision, signals, conn, leads, lastCall, lastResult,
          prevLeads, processed_count, lead_count, shutdown_started,
          connected, shutdownTasks, signalsSeen, disconnecting, closeCalls,
          shutdownRuns, pending, sent, eventsSeen, lastHandler, escaped,
          failures, insertAfterClose>>

analyzerVars == <<analyzer, lastText, decision, signals>>
storeVars == <<conn, leads, lastCall, lastResult, prevLeads>>
botVars == <<processed_count, lead_count, shutdown_started, connected,
             shutdownTasks, signalsSeen, disconnecting, closeCalls,
             shutdownRuns, pending, sent, eventsSeen, lastHandler, escaped,
             failures, insertAfterClose>>

(***************************************************************************)
(* Bounds of the model.                                                    *)
(***************************************************************************)
MaxWords == 3
MaxMinDetails == 4
MaxCalls == 3
MaxEvents == 3
MaxSignals == 2

(***************************************************************************)
(* Characters and strings (str.strip, str.lower, the "in" operator, and    *)
(* the character classes of module re).                                    *)
(***************************************************************************)
Digits == {"0", "1", "2", "3", "4", "5", "6", "7", "8", "9"}

Whitespace == {" ", "NL"}

NonWordChars == Whitespace \cup {".", ",", "+", "-", "(", ")", "@", "RUB"}

IsDigit(c) == c \in Digits

IsSpace(c) == c \in Whitespace

\* \w of a str pattern: letters, digits (the superscript two included), "_"
IsWordChar(c) == c \notin NonWordChars

Lower(c) ==
    CASE c = "K" -> "k"
      [] c = "P" -> "p"
      [] c = "N" -> "n"
      [] OTHER -> c

LowerStr(s) == [i \in 1..Len(s) |-> Lower(s[i])]

SetMin(S) == CHOOSE x \in S : \A y \in S : x <= y

SetMax(S) == CHOOSE x \in S : \A y \in S : x >= y

Strip(s) ==
    LET keep == {i \in 1..Len(s) : ~IsSpace(s[i])}
    IN  IF keep = {} THEN <<>> ELSE SubSeq(s, SetMin(keep), SetMax(keep))

\* u occurs in s starting at position p
StartsAt(s, p, u) ==
    /\ p >= 1
    /\ p + Len(u) - 1 <= Len(s)
    /\ \A k \in 1..Len(u) : s[p + k - 1] = u[k]

\* Python's "u in s" for strings
Contains(u, s) == \E p \in 1..(Len(s) + 1) : StartsAt(s, p, u)

ContainsAny(tokens, s) == \E t \in tokens : Contains(t, s)

\* \b between s[p-1] and s[p]
WordBoundary(s, p) ==
    (p > 1 /\ IsWordChar(s[p - 1])) # (p <= Len(s) /\ IsWordChar(s[p]))

RangeSet(s) == {s[i] : i \in 1..Len(s)}

(***************************************************************************)
(* The tokens and patterns of LeadAnalyzer.analyze.                        *)
(***************************************************************************)
T_rub == <<"r", "u", "b">>
T_rublej == <<"r", "u", "b", "l", "e", "j">>
T_budget == <<"b", "yu", "d", "zh", "e", "t">>
T_rdot == <<"r", ".">>
T_rajon == <<"r", "a", "j", "o", "n">>
T_metro == <<"m", "e", "t", "r", "o">>
T_uldot == <<"u", "l", ".">>
T_ulica == <<"u", "l", "i", "c", "a">>
T_gorod == <<"g", "o", "r", "o", "d">>
T_zhk == <<"zh", "k">>
T_etazh == <<"eh", "t", "a", "zh">>
T_ploschad == <<"p", "l", "o", "sch", "a", "d", "soft">>
T_m2sup == <<"m", "^2">>
T_kvm == <<"k", "v", ".", "m">>
T_m2 == <<"m", "2">>

BudgetTokens == {T_budget, <<"RUB">>, T_rub, T_rublej}

BudgetUnits == {<<"RUB">>, T_rub, T_rublej, T_rdot}

LocationTokens == {T_rajon, T_metro, T_uldot, T_ulica, T_gorod, T_zhk, T_etazh}

AreaTokens == {T_ploschad, T_m2sup, T_kvm}

AreaUnits == {T_m2sup, T_kvm, T_m2}

PhoneSeparators == Whitespace \cup {"-", "(", ")"}

PhoneMinDigits == 10

AreaMaxDigits == 4

BudgetMinDigits == 2

\* re.search(r"\b\d{2,}\s?(?:RUB|rub|rublej|r\.)", s)
BudgetRegex(s) ==
    \E i \in 1..Len(s) :
        /\ IsDigit(s[i])
        /\ WordBoundary(s, i)
        /\ \E n \in BudgetMinDigits..(Len(s) - i + 1) :
              /\ \A k \in i..(i + n - 1) : IsDigit(s[k])
              /\ \E ws \in {0, 1} :
                    /\ ws = 1 => (i + n <= Len(s) /\ IsSpace(s[i + n]))
                    /\ \E u \in BudgetUnits : StartsAt(s, i + n + ws, u)

\* re.search(r"\b\d{1,4}\s?(?:m^2|kv\.m|m2)\b", s)
AreaRegex(s) ==
    \E i \in 1..Len(s) :
        /\ IsDigit(s[i])
        /\ WordBoundary(s, i)
        /\ \E n \in 1..AreaMaxDigits :
              /\ i + n - 1 <= Len(s)
              /\ \A k \in i..(i + n - 1) : IsDigit(s[k])
              /\ \E ws \in {0, 1} :
                    /\ ws = 1 => (i + n <= Len(s) /\ IsSpace(s[i + n]))
                    /\ \E u \in AreaUnits :
                          /\ StartsAt(s, i + n + ws, u)
                          /\ WordBoundary(s, i + n + ws + Len(u))

\* PHONE_REGEX.search(s).  The country-code prefix is optional, so a match
\* exists exactly when ten digits, each followed by any number of
\* separators, stand in a row.
PhoneRegex(s) ==
    \E i \in 1..Len(s) :
        /\ IsDigit(s[i])
        /\ LET stop == {k \in i..Len(s) :
                           ~(IsDigit(s[k]) \/ s[k] \in PhoneSeparators)}
               last == IF stop = {} THEN Len(s) ELSE SetMin(stop) - 1
           IN  Cardinality({k \in i..last : IsDigit(s[k])}) >= PhoneMinDigits

EmailLocalChar(c) == IsWordChar(c) \/ c \in {".", "+", "-"}

EmailHostChar(c) == IsWordChar(c) \/ c = "-"

EmailTailChar(c) == IsWordChar(c) \/ c \in {".", "-"}

\* EMAIL_REGEX.search(s): [\w.+\-]+@[\w\-]+\.[\w.\-]+
EmailRegex(s) ==
    \E p \in 2..Len(s) :
        /\ s[p] = "@"
        /\ EmailLocalChar(s[p - 1])
        /\ \E m \in 1..(Len(s) - p) :
              /\ \A k \in (p + 1)..(p + m) : EmailHostChar(s[k])
              /\ p + m + 2 <= Len(s)
              /\ s[p + m + 1] = "."
              /\ EmailTailChar(s[p + m + 2])

(***************************************************************************)
(* LeadAnalyzer.                                                           *)
(***************************************************************************)
DefaultRequireExplicitIntent == TRUE

DefaultMinDetailsRequired == 1

DefaultContactBonus == TRUE

\* dict.get(key, default)
DictGet(d, key, default) == IF key \in DOMAIN d THEN d[key] ELSE default

\* [v.strip().lower() for v in values if isinstance(v, str) and v.strip()]
NormalizeList(values) ==
    LET kept == SelectSeq(values, LAMBDA v : Strip(v) # <<>>)
    IN  [i \in 1..Len(kept) |-> LowerStr(Strip(kept[i]))]

\* LeadAnalyzer.__init__(config)
LeadAnalyzerInit(keywords, rules) ==
    LET m == DictGet(rules, "min_details_required", DefaultMinDetailsRequired)
    IN  [buy_keywords |-> NormalizeList(DictGet(keywords, "buy", <<>>)),
         sell_keywords |-> NormalizeList(DictGet(keywords, "sell", <<>>)),
         urgency_keywords |->
             NormalizeList(DictGet(keywords, "urgency_interest", <<>>)),
         realtor_keywords |->
             NormalizeList(DictGet(keywords, "realtor_help", <<>>)),
         detail_keywords |-> NormalizeList(DictGet(keywords, "details", <<>>)),
         require_explicit_intent |->
             DictGet(rules, "require_explicit_intent",
                     DefaultRequireExplicitIntent),
         min_details_required |-> IF m < 0 THEN 0 ELSE m,
         contact_bonus |-> DictGet(rules, "contact_bonus", DefaultContactBonus)]

\* [kw for kw in keywords if kw in cleaned]
Hits(keywords, cleaned) ==
    SelectSeq(keywords, LAMBDA kw : Contains(kw, cleaned))

HasBudget(cleaned) == BudgetRegex(cleaned) \/ ContainsAny(BudgetTokens, cleaned)

HasLocation(cleaned) == ContainsAny(LocationTokens, cleaned)

HasArea(cleaned) == AreaRegex(cleaned) \/ ContainsAny(AreaTokens, cleaned)

HasContact(cleaned) == PhoneRegex(cleaned) \/ EmailRegex(cleaned)

\* the signals analyze() extracts from the cleaned text (lines 67-80)
Features(a, cleaned) ==
    [buy_hits |-> Hits(a.buy_keywords, cleaned),
     sell_hits |-> Hits(a.sell_keywords, cleaned),
     urgency_hits |-> Hits(a.urgency_keywords, cleaned),
     realtor_hits |-> Hits(a.realtor_keywords, cleaned),
     detail_hits |-> Hits(a.detail_keywords, cleaned),
     has_budget |-> HasBudget(cleaned),
     has_location |-> HasLocation(cleaned),
     has_area |-> HasArea(cleaned),
     has_contact |-> HasContact(cleaned)]

BoolInt(b) == IF b THEN 1 ELSE 0

\* details_score = sum([has_budget, has_location, has_area])
DetailsScore(f) ==
    BoolInt(f.has_budget) + BoolInt(f.has_location) + BoolInt(f.has_area)

IntentHits(f) == f.buy_hits \o f.sell_hits

\* variant: buy hits win over sell hits
CategoryBuyFirst(f) ==
    IF f.buy_hits # <<>> THEN "buy"
    ELSE IF f.sell_hits # <<>> THEN "sell"
    ELSE IF f.realtor_hits # <<>> THEN "realtor_help"
    ELSE "none"

Category(f) ==
    IF f.buy_hits # <<>> /\ f.sell_hits = <<>> THEN "buy"
    ELSE IF f.sell_hits # <<>> /\ f.buy_hits = <<>> THEN "sell"
    ELSE IF f.buy_hits # <<>> /\ f.sell_hits # <<>> THEN "mixed"
    ELSE IF f.realtor_hits # <<>> THEN "realtor_help"
    ELSE "none"

CountTag(name, hits) ==
    IF hits # <<>> THEN <<name \o ":" \o ToString(Len(hits))>> ELSE <<>>

FlagTag(name, flag) == IF flag THEN <<name>> ELSE <<>>

Reasons(f) ==
    CountTag("buy_keywords", f.buy_hits)
    \o CountTag("sell_keywords", f.sell_hits)
    \o CountTag("urgency_keywords", f.urgency_hits)
    \o CountTag("realtor_keywords", f.realtor_hits)
    \o CountTag("detail_keywords", f.detail_hits)
    \o FlagTag("has_budget", f.has_budget)
    \o FlagTag("has_location", f.has_location)
    \o FlagTag("has_area", f.has_area)
    \o FlagTag("has_contact", f.has_contact)

\* variant: urgency hits counted as intent
Gate1RejectsUrgencyCounts(a, f) ==
    /\ a.require_explicit_intent
    /\ IntentHits(f) = <<>>
    /\ f.realtor_hits = <<>>
    /\ f.urgency_hits = <<>>

\* variant: the gate looks at the details instead of the intent
Gate1RejectsOnDetails(a, f) ==
    a.require_explicit_intent /\ DetailsScore(f) = 0

Gate1Rejects(a, f) ==
    a.require_explicit_intent /\ IntentHits(f) = <<>> /\ f.realtor_hits = <<>>

\* variant: <= in place of <
Gate2RejectsAtThreshold(a, f) ==
    DetailsScore(f) <= a.min_details_required /\ ~f.has_contact

Gate2Rejects(a, f) ==
    DetailsScore(f) < a.min_details_required /\ ~f.has_contact

IntentWeight == 2

LeadThreshold == 3

\* variant: the contact bonus is given whatever contact_bonus says
LeadScoreAlwaysBonus(a, f) ==
    (IF IntentHits(f) # <<>> THEN IntentWeight ELSE 0)
    + (IF DetailsScore(f) > 0 THEN DetailsScore(f) ELSE 0)
    + (IF f.urgency_hits # <<>> THEN 1 ELSE 0)
    + (IF f.realtor_hits # <<>> THEN 1 ELSE 0)
    + (IF f.has_contact THEN 1 ELSE 0)

LeadScore(a, f) ==
    (IF IntentHits(f) # <<>> THEN IntentWeight ELSE 0)
    + (IF DetailsScore(f) > 0 THEN DetailsScore(f) ELSE 0)
    + (IF f.urgency_hits # <<>> THEN 1 ELSE 0)
    + (IF f.realtor_hits # <<>> THEN 1 ELSE 0)
    + (IF a.contact_bonus /\ f.has_contact THEN 1 ELSE 0)

LeadDecision(is_lead, reasons, category) ==
    [is_lead |-> is_lead, reasons |-> reasons, category |-> category]

Clean(text) == LowerStr(Strip(text))

\* the one element of a singleton set; {e(x) : x \in {v}} computes v once
Only(S) == CHOOSE x \in S : TRUE

\* LeadAnalyzer.analyze(text)
analyze(a, text) ==
    LET Decide(cleaned, f) ==
            IF cleaned = <<>>
            THEN LeadDecision(FALSE, <<"empty_message">>, "none")
            ELSE IF Gate1Rejects(a, f)
            THEN LeadDecision(FALSE, Reasons(f) \o <<"no_intent">>,
                              Category(f))
            ELSE IF Gate2Rejects(a, f)
            THEN LeadDecision(FALSE,
                              Reasons(f) \o <<"insufficient_details">>,
                              Category(f))
            ELSE LeadDecision(LeadScore(a, f) >= LeadThreshold,
                              Reasons(f), Category(f))
    IN  Only({Only({Decide(cleaned, f) : f \in {Features(a, cleaned)}}) :
                  cleaned \in {Clean(text)}})

(***************************************************************************)
(* Inputs: message texts and configurations.                               *)
(***************************************************************************)
W_kuplyu ==
    <<"K", "u", "p", "l", "yu">>

W_prodam ==
    <<"p", "r", "o", "d", "a", "m">>

W_srochno ==
    <<"s", "r", "o", "ch", "n", "o">>

W_rieltor ==
    <<"r", "i", "e", "l", "t", "o", "r">>

W_price ==
    <<"5", "0", " ", "r", ".">>

W_zhk ==
    <<"zh", "k">>

W_area ==
    <<"4", "0", " ", "m", "2">>

W_email ==
    <<"ya", "@", "ya", ".", "ya">>

W_phone ==
    <<"+", "7", "9", "9", "9", "1", "2", "3", "4", "5", "6", "7">>

W_news ==
    <<"N", "o", "v", "o", "s", "t", "i">>

K_kuplyu ==
    <<" ", "K", "u", "p", "l", "yu", " ">>

K_kupit ==
    <<"k", "u", "p", "i", "t", "soft">>

K_prodam ==
    <<"p", "r", "o", "d", "a", "m">>

K_prodayu ==
    <<"P", "r", "o", "d", "a", "yu">>

K_srochno ==
    <<"s", "r", "o", "ch", "n", "o">>

K_rieltor ==
    <<"r", "i", "e", "l", "t", "o", "r">>

K_kvartir ==
    <<"k", "v", "a", "r", "t", "i", "r">>

K_blank ==
    <<" ", " ">>

Vocabulary ==
    <<W_kuplyu, W_prodam, W_srochno, W_rieltor, W_price, W_zhk, W_area,
      W_email, W_phone, W_news>>

RECURSIVE Render(_, _)
\* the words chosen by S, in vocabulary order from word i on, each after a blank
Render(S, i) ==
    IF i > Len(Vocabulary) THEN <<>>
    ELSE (IF i \in S THEN <<" ">> \o Vocabulary[i] ELSE <<>>)
         \o Render(S, i + 1)

WordSets ==
    {S \in SUBSET (1..Len(Vocabulary)) : Cardinality(S) <= MaxWords}

Texts == {Render(S, 1) : S \in WordSets} \cup {<<" ", "NL">>}

\* config["keywords"]: 1 names every category, 2 leaves categories out
KeywordConfig(i) ==
    IF i = 1
    THEN [buy |-> <<K_kuplyu, K_kupit>>,
          sell |-> <<K_prodam, K_prodayu>>,
          urgency_interest |-> <<K_srochno>>,
          realtor_help |-> <<K_rieltor>>,
          details |-> <<K_kvartir, K_blank>>]
    ELSE [sell |-> <<K_prodam>>, urgency_interest |-> <<K_srochno>>]

KeywordConfigs == {1, 2}

\* config["rules"] with every key set
Rules(req, min, bonus) ==
    [require_explicit_intent |-> req, min_details_required |-> min,
     contact_bonus |-> bonus]

\* config["rules"] == {}
EmptyRules == [k \in {} |-> TRUE]

Analyzers ==
    {LeadAnalyzerInit(KeywordConfig(i), Rules(req, min, bonus)) :
        i \in KeywordConfigs, req \in BOOLEAN,
        min \in (-1)..MaxMinDetails, bonus \in BOOLEAN}
    \cup {LeadAnalyzerInit(KeywordConfig(i), EmptyRules) : i \in KeywordConfigs}

NoDecision == LeadDecision(FALSE, <<>>, "unset")

NoSignals == Features(LeadAnalyzerInit(EmptyRules, EmptyRules), <<>>)

NoCall == [n |-> 0]

NoHandler ==
    [step |-> "none", n |-> 0, chat_id |-> 0, message_id |-> 0,
     exc |-> "none"]

StoreIdle ==
    /\ conn = "open"
    /\ leads = <<>>
    /\ lastCall = NoCall
    /\ lastResult = "none"
    /\ prevLeads = <<>>

BotIdle ==
    /\ processed_count = 0
    /\ lead_count = 0
    /\ shutdown_started = FALSE
    /\ connected = TRUE
    /\ shutdownTasks = 0
    /\ signalsSeen = 0
    /\ disconnecting = FALSE
    /\ closeCalls = 0
    /\ shutdownRuns = 0
    /\ pending = {}
    /\ sent = <<>>
    /\ eventsSeen = 0
    /\ lastHandler = NoHandler
    /\ escaped = FALSE
    /\ failures = 0
    /\ insertAfterClose = FALSE

(***************************************************************************)
(* SpecAnalyzer: an analyzer built from any configuration classifies any   *)
(* text.                                                                   *)
(***************************************************************************)
InitAnalyzer ==
    /\ analyzer \in Analyzers
    /\ lastText \in Texts
    /\ decision = NoDecision
    /\ signals = NoSignals
    /\ StoreIdle
    /\ BotIdle

Analyze ==
    /\ decision = NoDecision
    /\ decision' = analyze(analyzer, lastText)
    /\ signals' = Features(analyzer, Clean(lastText))
    /\ UNCHANGED <<analyzer, lastText, storeVars, botVars>>

NextAnalyzer == Analyze

SpecAnalyzer == InitAnalyzer /\ [][NextAnalyzer]_vars

(***************************************************************************)
(* Properties of LeadAnalyzer.analyze (under SpecAnalyzer).                *)
(***************************************************************************)
Analyzed == decision # NoDecision

\* the signals of the analyzed text
F == signals

NonEmptyText == Clean(lastText) # <<>>

InReasons(tag) == tag \in RangeSet(decision.reasons)

\* no configured buy, sell or realtor_help keyword occurs in the text
ZeroIntentKeywords ==
    \A kw \in RangeSet(analyzer.buy_keywords)
                \cup RangeSet(analyzer.sell_keywords)
                \cup RangeSet(analyzer.realtor_keywords) :
        ~Contains(kw, LowerStr(lastText))

\* C3 as stated: with require_explicit_intent, any text holding none of the
\* configured buy, sell and realtor_help keywords is a non-lead with reason
\* no_intent.
C3_NoIntentAnyText ==
    (Analyzed /\ analyzer.require_explicit_intent /\ ZeroIntentKeywords)
        => (~decision.is_lead /\ InReasons("no_intent"))

\* C3 amended: with require_explicit_intent, any text that is not empty after
\* trimming and holds none of the configured buy, sell and realtor_help
\* keywords is a non-lead with reason no_intent; a text that is empty after
\* trimming is a non-lead with the single reason empty_message.
C3_NoIntentNonEmptyText ==
    (Analyzed /\ analyzer.require_explicit_intent /\ ZeroIntentKeywords)
        => /\ ~decision.is_lead
           /\ NonEmptyText => InReasons("no_intent")
           /\ ~NonEmptyText => decision.reasons = <<"empty_message">>

C3_Witness ==
    /\ Analyzed
    /\ analyzer.require_explicit_intent
    /\ ZeroIntentKeywords
    /\ NonEmptyText
    /\ F.urgency_hits # <<>>
    /\ DetailsScore(F) >= 2
    /\ InReasons("no_intent")

\* the message reaches gate 2: it is not empty and gate 1 lets it through
ReachesGate2 ==
    /\ NonEmptyText
    /\ \/ ~analyzer.require_explicit_intent
       \/ F.buy_hits # <<>>
       \/ F.sell_hits # <<>>
       \/ F.realtor_hits # <<>>

\* C4 as stated: without a contact, details_score = min_details_required is
\* not rejected with insufficient_details, and details_score =
\* min_details_required - 1 is a non-lead with reason insufficient_details.
C4_ThresholdAnyMessage ==
    (Analyzed /\ ~F.has_contact)
        => /\ DetailsScore(F) = analyzer.min_details_required
                => ~InReasons("insufficient_details")
           /\ DetailsScore(F) = analyzer.min_details_required - 1
                => (~decision.is_lead /\ InReasons("insufficient_details"))

\* C4 amended: for a message without a contact that reaches gate 2 (not empty
\* after trimming, not rejected by gate 1), details_score =
\* min_details_required is not rejected with insufficient_details and
\* details_score = min_details_required - 1 is a non-lead with reason
\* insufficient_details; a message without a contact that does not reach
\* gate 2 is a non-lead without the reason insufficient_details.
C4_ThresholdAtGate2 ==
    (Analyzed /\ ~F.has_contact)
        => /\ DetailsScore(F) = analyzer.min_details_required
                => ~InReasons("insufficient_details")
           /\ (ReachesGate2
               /\ DetailsScore(F) = analyzer.min_details_required - 1)
                => (~decision.is_lead /\ InReasons("insufficient_details"))
           /\ ~ReachesGate2
                => (~decision.is_lead /\ ~InReasons("insufficient_details"))

C4_Witness ==
    /\ Analyzed
    /\ ~F.has_contact
    /\ ReachesGate2
    /\ analyzer.min_details_required >= 1
    /\ DetailsScore(F) = analyzer.min_details_required
    /\ ~InReasons("insufficient_details")

\* the category the keyword hits imply
HitsCategory ==
    LET buy == F.buy_hits # <<>>
        sell == F.sell_hits # <<>>
        realtor == F.realtor_hits # <<>>
    IN  CASE buy /\ ~sell -> "buy"
          [] sell /\ ~buy -> "sell"
          [] buy /\ sell -> "mixed"
          [] ~buy /\ ~sell /\ realtor -> "realtor_help"
          [] OTHER -> "none"

\* C5: for every non-empty text and every configuration the category is the
\* one the keyword hits imply, whether the message is rejected by gate 1,
\* rejected by gate 2 or scored.
C5_CategoryFromHits ==
    (Analyzed /\ lastText # <<>>) => decision.category = HitsCategory

C5_Witness ==
    /\ Analyzed
    /\ InReasons("insufficient_details")
    /\ decision.category = "mixed"

\* the score as the claim counts it
ClaimedScore ==
    (IF F.buy_hits # <<>> \/ F.sell_hits # <<>> THEN 2 ELSE 0)
    + DetailsScore(F)
    + (IF F.urgency_hits # <<>> THEN 1 ELSE 0)
    + (IF F.realtor_hits # <<>> THEN 1 ELSE 0)
    + (IF analyzer.contact_bonus /\ F.has_contact THEN 1 ELSE 0)

PassesBothGates ==
    /\ ReachesGate2
    /\ ~(DetailsScore(F) < analyzer.min_details_required /\ ~F.has_contact)

\* C6: a message that passes both gates is a lead exactly when its score is
\* at least 3, and its reasons hold neither no_intent nor
\* insufficient_details.
C6_LeadIffScore ==
    (Analyzed /\ PassesBothGates)
        => /\ decision.is_lead <=> (ClaimedScore >= 3)
           /\ ~InReasons("no_intent")
           /\ ~InReasons("insufficient_details")

C6_Witness ==
    /\ Analyzed
    /\ PassesBothGates
    /\ ClaimedScore = 3
    /\ F.has_contact
    /\ analyzer.contact_bonus
    /\ decision.is_lead

NoKeywordHitNoContact ==
    /\ F.buy_hits = <<>>
    /\ F.sell_hits = <<>>
    /\ F.urgency_hits = <<>>
    /\ F.realtor_hits = <<>>
    /\ ~F.has_contact

\* C7 as stated: under every rule configuration a message with no buy, sell,
\* urgency or realtor_help hit and no contact is a non-lead.
C7_DetailsAloneAnyRules ==
    (Analyzed /\ NoKeywordHitNoContact) => ~decision.is_lead

\* C7 amended: a message with no buy, sell, urgency or realtor_help hit and
\* no contact is a non-lead under every configuration with
\* require_explicit_intent = true and whenever its details_score is below 3;
\* with require_explicit_intent = false it is a lead exactly when its
\* details_score is 3 and min_details_required is at most 3.
C7_DetailsAloneWithIntentGate ==
    (Analyzed /\ NoKeywordHitNoContact)
        => (decision.is_lead <=>
                /\ ~analyzer.require_explicit_intent
                /\ DetailsScore(F) = 3
                /\ analyzer.min_details_required <= 3)

C7_Witness ==
    /\ Analyzed
    /\ NoKeywordHitNoContact
    /\ analyzer.require_explicit_intent
    /\ DetailsScore(F) = 3
    /\ ~decision.is_lead

(***************************************************************************)
(* LeadStorage.                                                            *)
(***************************************************************************)
\* sha256(...).hexdigest(), kept abstract: a digest stands for exactly the
\* byte string it was computed from
Sha256(bytes) == [sha256 |-> bytes]

RECURSIVE JoinComma(_)
\* ",".join(reasons)
JoinComma(reasons) ==
    IF reasons = <<>> THEN ""
    ELSE IF Len(reasons) = 1 THEN reasons[1]
    ELSE reasons[1] \o "," \o JoinComma(Tail(reasons))

\* datetime.isoformat() of a UTC time given in seconds of one minute
IsoFormat(t) ==
    "2024-01-01T00:00:" \o (IF t < 10 THEN "0" ELSE "") \o ToString(t)
    \o "+00:00"

Key(r) == <<r.chat_id, r.message_id>>

\* the row INSERT INTO leads writes for call m into a table of n rows
NewRow(n, m) ==
    [id |-> n + 1,
     message_id |-> m.message_id,
     chat_id |-> m.chat_id,
     user_id |-> m.user_id,
     chat_title |-> m.chat_title,
     message_text |-> m.message_text,
     message_hash |-> Sha256(Clean(m.message_text)),
     category |-> m.category,
     status |-> m.status,
     reasons |-> JoinComma(m.reasons),
     created_at |-> IsoFormat(m.created_at)]

\* variant: the uniqueness constraint is put on message_hash
ViolatesUniqueByHash(table, row) ==
    \E i \in 1..Len(table) : table[i].message_hash = row.message_hash

\* UNIQUE(chat_id, message_id)
ViolatesUnique(table, row) ==
    \E i \in 1..Len(table) : Key(table[i]) = Key(row)

\* LeadStorage.insert_message: the outcome ("true", "false", or "raise" for
\* an exception that leaves the method) and the table afterwards
insert_message(c, table, m) ==
    IF c = "closed"
    THEN [result |-> "raise", leads |-> table]
    ELSE IF ViolatesUnique(table, NewRow(Len(table), m))
    THEN [result |-> "false", leads |-> table]
    ELSE [result |-> "true",
          leads |-> Append(table, NewRow(Len(table), m))]

(***************************************************************************)
(* SpecStore: any sequence of insert_message calls on one store.           *)
(***************************************************************************)
T_sell == <<"p", "r", "o", "d", "a", "m">>

T_sellSpaced == <<" ", "P", "r", "o", "d", "a", "m", " ">>

T_buy == <<"k", "u", "p", "l", "yu">>

StoreKeys == {<<100, 1>>, <<100, 2>>, <<101, 1>>}

\* the data of a call other than its key
Payloads ==
    {[user_id |-> 200, chat_title |-> "Test", message_text |-> T_sell,
      category |-> "sell", status |-> "lead",
      reasons |-> <<"sell_keywords:1", "has_budget">>, created_at |-> 0],
     [user_id |-> 201, chat_title |-> "Test", message_text |-> T_sellSpaced,
      category |-> "sell", status |-> "not_lead",
      reasons |-> <<"sell_keywords:1">>, created_at |-> 1],
     [user_id |-> 200, chat_title |-> "Other", message_text |-> T_buy,
      category |-> "buy", status |-> "not_lead",
      reasons |-> <<>>, created_at |-> 12]}

Call(n, key, d) ==
    [n |-> n, chat_id |-> key[1], message_id |-> key[2],
     user_id |-> d.user_id, chat_title |-> d.chat_title,
     message_text |-> d.message_text, category |-> d.category,
     status |-> d.status, reasons |-> d.reasons, created_at |-> d.created_at]

InitStore ==
    /\ analyzer = LeadAnalyzerInit(KeywordConfig(1), EmptyRules)
    /\ lastText = <<>>
    /\ decision = NoDecision
    /\ signals = NoSignals
    /\ StoreIdle
    /\ BotIdle

InsertCall ==
    /\ lastCall.n < MaxCalls
    /\ \E key \in StoreKeys, d \in Payloads :
      \E m \in {Call(lastCall.n + 1, key, d)} :
      \E r \in {insert_message(conn, leads, m)} :
              /\ lastCall' = m
              /\ lastResult' = r.result
              /\ prevLeads' = leads
              /\ leads' = r.leads
    /\ UNCHANGED <<conn, analyzerVars, botVars>>

NextStore == InsertCall

SpecStore == InitStore /\ [][NextStore]_vars

HasKey(table, key) == \E i \in 1..Len(table) : Key(table[i]) = key

\* C1: a call returns true exactly when no row with its (chat_id,
\* message_id) exists; it then adds exactly one row holding the call's data;
\* otherwise it returns false, raises nothing and leaves the table
\* unchanged.  Rows with the same message_text carry the same message_hash,
\* and no two rows share a key.
C1_InsertOncePerKey ==
    /\ lastResult # "raise"
    /\ lastResult # "none" =>
          /\ lastResult = "true" <=> ~HasKey(prevLeads, Key(lastCall))
          /\ lastResult = "false" => leads = prevLeads
          /\ lastResult = "true" =>
                /\ Len(leads) = Len(prevLeads) + 1
                /\ SubSeq(leads, 1, Len(prevLeads)) = prevLeads
                /\ LET row == leads[Len(leads)]
                   IN  /\ Key(row) = Key(lastCall)
                       /\ row.user_id = lastCall.user_id
                       /\ row.chat_title = lastCall.chat_title
                       /\ row.message_text = lastCall.message_text
                       /\ row.message_hash
                             = Sha256(LowerStr(Strip(lastCall.message_text)))
                       /\ row.category = lastCall.category
                       /\ row.status = lastCall.status
                       /\ row.reasons = JoinComma(lastCall.reasons)
                       /\ row.created_at = IsoFormat(lastCall.created_at)
    /\ \A i, j \in 1..Len(leads) :
          /\ Key(leads[i]) = Key(leads[j]) => i = j
          /\ leads[i].message_text = leads[j].message_text
                => leads[i].message_hash = leads[j].message_hash

\* a duplicate was refused after a first insert, and two rows with different
\* keys hold the same text
C1_Witness ==
    /\ lastResult = "false"
    /\ HasKey(prevLeads, Key(lastCall))
    /\ \E i, j \in 1..Len(leads) :
          /\ i # j
          /\ leads[i].message_text = leads[j].message_text
          /\ leads[i].message_hash = leads[j].message_hash
    /\ \E i \in 1..Len(leads) :
          /\ Key(leads[i]) = Key(lastCall)
          /\ leads[i].message_text # lastCall.message_text

(***************************************************************************)
(* run_bot: the message handler and the shutdown task.                     *)
(***************************************************************************)
T_leadMsg == W_kuplyu \o <<" ">> \o W_zhk \o <<" ">> \o W_phone

BotKeys == {<<100, 1>>, <<101, 1>>}

\* event.chat.title; chat 101 has none
ChatTitle(chat_id) == IF chat_id = 100 THEN "Test" ELSE ""

Event(key, raw_text, is_group) ==
    [chat_id |-> key[1], message_id |-> key[2], sender_id |-> 200,
     title |-> ChatTitle(key[1]), raw_text |-> raw_text,
     is_group |-> is_group, date |-> 30]

Events ==
    {Event(key, t, TRUE) : key \in BotKeys, t \in {T_leadMsg, W_news}}
    \cup {Event(<<100, 1>>, <<>>, TRUE), Event(<<100, 1>>, W_news, FALSE)}

\* an exception raised inside analyze() or inside insert_message() on an
\* open store, besides those the code itself produces
HandlerFaults == {"none", "classify", "insert"}

\* how the awaited client.send_message ends
SendOutcomes == {"ok", "FloodWaitError", "RpcError", "ConnectionError"}

\* variant: only the storage errors are caught
HandlerCatchesStorageOnly(exc) ==
    exc \in {"ProgrammingError", "OperationalError"}

\* except Exception
HandlerCatches(exc) ==
    exc \in {"ClassifyError", "ProgrammingError", "OperationalError",
             "ConnectionError", "FloodWaitError", "RpcError"}

\* except FloodWaitError / except RpcError around send_message
SendCatches(exc) == exc \in {"FloodWaitError", "RpcError"}

\* variant: a duplicate is not skipped
SkipsDuplicateNever(inserted) == FALSE

\* if not inserted: return
SkipsDuplicate(inserted) == ~inserted

\* variant: the flag is not consulted
ShutdownAlreadyStartedIgnored(started) == FALSE

\* if shutdown_started: return
ShutdownAlreadyStarted(started) == started

\* the arguments handler() passes to insert_message
HandlerCall(e, d) ==
    [n |-> 0, chat_id |-> e.chat_id, message_id |-> e.message_id,
     user_id |-> e.sender_id,
     chat_title |-> IF e.title # "" THEN e.title ELSE ToString(e.chat_id),
     message_text |-> e.raw_text,
     category |-> d.category,
     status |-> IF d.is_lead THEN "lead" ELSE "not_lead",
     reasons |-> d.reasons,
     created_at |-> e.date]

\* what one run of handler(event) up to its first await (or its return)
\* does: step is "filtered", "raised", "duplicate", "stored" or "notifying"
handler(e, fault, c, table) ==
    LET quiet == [step |-> "filtered", exc |-> "none", counted |-> FALSE,
                  leads |-> table, insertCalled |-> FALSE,
                  inserted |-> FALSE, is_lead |-> FALSE,
                  category |-> "none"]
        Ran(d) == [quiet EXCEPT !.counted = TRUE, !.insertCalled = TRUE,
                                !.is_lead = d.is_lead,
                                !.category = d.category]
        AfterInsert(d, r) ==
            IF fault = "insert" /\ c = "open"
            THEN [Ran(d) EXCEPT !.step = "raised",
                                !.exc = "OperationalError"]
            ELSE IF r.result = "raise"
            THEN [Ran(d) EXCEPT !.step = "raised",
                                !.exc = "ProgrammingError"]
            ELSE IF SkipsDuplicate(r.result = "true")
            THEN [Ran(d) EXCEPT !.step = "duplicate"]
            ELSE [Ran(d) EXCEPT !.leads = r.leads,
                                !.inserted = (r.result = "true"),
                                !.step = IF d.is_lead THEN "notifying"
                                         ELSE "stored"]
        AfterAnalyze(d) ==
            Only({AfterInsert(d, r) :
                     r \in {insert_message(c, table, HandlerCall(e, d))}})
    IN  IF ~e.is_group THEN quiet
        ELSE IF e.raw_text = <<>> THEN quiet
        ELSE IF fault = "classify"
        THEN [quiet EXCEPT !.step = "raised", !.exc = "ClassifyError",
                           !.counted = TRUE]
        ELSE Only({AfterAnalyze(d) : d \in {analyze(analyzer, e.raw_text)}})

InitBot ==
    /\ analyzer = LeadAnalyzerInit(KeywordConfig(1), EmptyRules)
    /\ lastText = <<>>
    /\ decision = NoDecision
    /\ signals = NoSignals
    /\ StoreIdle
    /\ BotIdle

\* one inbound message event runs handler() up to its first await
HandleEvent ==
    /\ connected
    /\ eventsSeen < MaxEvents
    /\ \E e \in Events, fault \in HandlerFaults :
      \E h \in {handler(e, fault, conn, leads)} :
          LET n == eventsSeen + 1
              caught == h.step = "raised" /\ HandlerCatches(h.exc)
              lost == h.step = "raised" /\ ~HandlerCatches(h.exc)
              note == [chat_id |-> e.chat_id, message_id |-> e.message_id,
                       n |-> n]
          IN  /\ eventsSeen' = n
              /\ processed_count'
                    = processed_count + (IF h.counted THEN 1 ELSE 0)
              /\ lead_count'
                    = lead_count + (IF h.step = "notifying" THEN 1 ELSE 0)
              /\ prevLeads' = leads
              /\ leads' = h.leads
              /\ insertAfterClose'
                    = (insertAfterClose \/ (h.insertCalled /\ conn = "closed"))
              /\ failures' = failures + (IF caught THEN 1 ELSE 0)
              /\ escaped' = (escaped \/ lost)
              /\ pending'
                    = IF h.step = "notifying" THEN pending \cup {note}
                      ELSE pending
              /\ sent'
                    = IF h.step = "notifying"
                      THEN Append(sent, [chat_id |-> e.chat_id,
                                         message_id |-> e.message_id,
                                         n |-> n,
                                         inserted |-> h.inserted,
                                         is_lead |-> h.is_lead,
                                         category |-> h.category])
                      ELSE sent
              /\ lastHandler'
                    = [step |-> h.step, n |-> n, chat_id |-> e.chat_id,
                       message_id |-> e.message_id, exc |-> h.exc]
    /\ UNCHANGED <<analyzerVars, conn, lastCall, lastResult,
                   shutdown_started, connected, shutdownTasks, signalsSeen,
                   disconnecting, closeCalls, shutdownRuns>>

\* the awaited client.send_message of a suspended handler returns or raises
SendReturns ==
    /\ connected
    /\ \E p \in pending, outcome \in SendOutcomes :
          LET logged == outcome # "ok" /\ SendCatches(outcome)
              caught == outcome # "ok" /\ ~SendCatches(outcome)
                        /\ HandlerCatches(outcome)
              lost == outcome # "ok" /\ ~SendCatches(outcome)
                      /\ ~HandlerCatches(outcome)
          IN  /\ pending' = pending \ {p}
              /\ failures' = failures + (IF logged \/ caught THEN 1 ELSE 0)
              /\ escaped' = (escaped \/ lost)
              /\ prevLeads' = leads
              /\ lastHandler'
                    = [step |-> IF outcome = "ok" THEN "notified"
                                ELSE "notify_failed",
                       n |-> p.n, chat_id |-> p.chat_id,
                       message_id |-> p.message_id,
                       exc |-> IF outcome = "ok" THEN "none" ELSE outcome]
    /\ UNCHANGED <<analyzerVars, conn, leads, lastCall, lastResult,
                   processed_count, lead_count, shutdown_started, connected,
                   shutdownTasks, signalsSeen, disconnecting, closeCalls,
                   shutdownRuns, sent, eventsSeen, insertAfterClose>>

\* SIGINT or SIGTERM: asyncio_create_task_safe(shutdown()) creates a task
\* when a loop is running and does nothing otherwise
Signal ==
    /\ signalsSeen < MaxSignals
    /\ signalsSeen' = signalsSeen + 1
    /\ shutdownTasks' = IF connected THEN shutdownTasks + 1 ELSE shutdownTasks
    /\ UNCHANGED <<analyzerVars, storeVars, processed_count, lead_count,
                   shutdown_started, connected, disconnecting, closeCalls,
                   shutdownRuns, pending, sent, eventsSeen, lastHandler,
                   escaped, failures, insertAfterClose>>

\* a shutdown() task runs up to its await of client.disconnect()
RunShutdown ==
    /\ connected
    /\ shutdownTasks > 0
    /\ shutdownTasks' = shutdownTasks - 1
    /\ shutdownRuns' = shutdownRuns + 1
    /\ IF ShutdownAlreadyStarted(shutdown_started)
       THEN UNCHANGED <<shutdown_started, conn, closeCalls, disconnecting>>
       ELSE /\ shutdown_started' = TRUE
            /\ conn' = "closed"
            /\ closeCalls' = closeCalls + 1
            /\ disconnecting' = TRUE
    /\ UNCHANGED <<analyzerVars, leads, lastCall, lastResult, prevLeads,
                   processed_count, lead_count, connected, signalsSeen,
                   pending, sent, eventsSeen, lastHandler, escaped, failures,
                   insertAfterClose>>

\* client.disconnect() completes and run_until_disconnected() returns
DisconnectDone ==
    /\ connected
    /\ disconnecting
    /\ connected' = FALSE
    /\ disconnecting' = FALSE
    /\ UNCHANGED <<analyzerVars, storeVars, processed_count, lead_count,
                   shutdown_started, shutdownTasks, signalsSeen, closeCalls,
                   shutdownRuns, pending, sent, eventsSeen, lastHandler,
                   escaped, failures, insertAfterClose>>

Next ==
    \/ HandleEvent
    \/ SendReturns
    \/ Signal
    \/ RunShutdown
    \/ DisconnectDone

Spec == InitBot /\ [][Next]_vars

(***************************************************************************)
(* Properties of the handler and of shutdown (under Spec).                 *)
(***************************************************************************)
LastKey == <<lastHandler.chat_id, lastHandler.message_id>>

RequestedFor(n) == \E i \in 1..Len(sent) : sent[i].n = n

\* C2: a notification is requested for an event only when insert_message
\* returned true for it and the decision is a lead; so at most one
\* notification is requested per (chat_id, message_id), and none for a
\* redelivered message.
C2_NotifyOncePerKey ==
    /\ \A i \in 1..Len(sent) :
          /\ sent[i].inserted
          /\ sent[i].is_lead
          /\ \E k \in 1..Len(leads) :
                /\ Key(leads[k]) = Key(sent[i])
                /\ leads[k].status = "lead"
    /\ \A i, j \in 1..Len(sent) : Key(sent[i]) = Key(sent[j]) => i = j
    /\ lastHandler.step \in {"duplicate", "stored", "raised", "filtered"}
          => ~RequestedFor(lastHandler.n)

\* a lead was notified and its redelivery was skipped without a request
C2_Witness ==
    /\ lastHandler.step = "duplicate"
    /\ \E i \in 1..Len(sent) :
          /\ Key(sent[i]) = LastKey
          /\ sent[i].n < lastHandler.n
    /\ Len(sent) = 1

\* the row the last handler run left for its message
LastRow == leads[Len(leads)]

\* C8: a failure while one message is processed stays in that message: no
\* exception leaves the handler, the row committed before a failed
\* notification stays as it was, and a message processed without a failure
\* of its own is classified and stored as usual whatever failed before it.
C8_FailureContained ==
    /\ ~escaped
    /\ lastHandler.step = "raised" => leads = prevLeads
    /\ lastHandler.step = "notify_failed" =>
          /\ leads = prevLeads
          /\ \E k \in 1..Len(leads) :
                /\ Key(leads[k]) = LastKey
                /\ leads[k].status = "lead"
    /\ lastHandler.step = "duplicate" =>
          (HasKey(prevLeads, LastKey) /\ leads = prevLeads)
    /\ lastHandler.step \in {"stored", "notifying"} =>
          /\ ~HasKey(prevLeads, LastKey)
          /\ leads = Append(prevLeads, LastRow)
          /\ Key(LastRow) = LastKey
          /\ \E d \in {analyze(analyzer, LastRow.message_text)} :
                /\ LastRow.category = d.category
                /\ LastRow.reasons = JoinComma(d.reasons)
                /\ LastRow.status
                      = (IF d.is_lead THEN "lead" ELSE "not_lead")
                /\ d.is_lead <=> lastHandler.step = "notifying"

\* after two caught failures (a failed notification among them) the next
\* message is stored
C8_Witness ==
    /\ failures >= 2
    /\ lastHandler.step = "stored"
    /\ conn = "open"
    /\ \E k \in 1..Len(leads) : leads[k].status = "lead"

\* C9: LeadStorage.close runs at most once, and exactly once as soon as a
\* shutdown task has run.
C9_CloseExactlyOnce ==
    /\ closeCalls <= 1
    /\ shutdownRuns >= 1 => closeCalls = 1
    /\ closeCalls = 1 <=> conn = "closed"

\* two shutdown tasks have run
C9_Witness ==
    /\ shutdownRuns >= 2
    /\ closeCalls = 1

\* C10: the handler never calls insert_message after LeadStorage.close has
\* run.
C10_NoInsertAfterClose == ~insertAfterClose

====
